---- MODULE Spec2Model ----
(***************************************************************************)
(* Model of app.py: spreadsheet ingestion (header resolution, the smart     *)
(* Excel reader) and pricing (splice tiers, device types).                  *)
(*                                                                          *)
(* Text is modelled as a sequence of characters; a character is a one-      *)
(* element TLA+ string.  Accented letters are written with a trailing mark: *)
(* "a~" is a-tilde, "A~" its capital, "o~" o-tilde, "c," c-cedilla,         *)
(* "u'" u-acute.  Money is counted in thousandths of the currency unit, so  *)
(* 2000 is 2.00 and 1005 is 1.005.                                          *)
(***************************************************************************)
EXTENDS Integers, Sequences, FiniteSets, TLC

VARIABLES
    hdr, hkey, hprev, hedit,        \* a header label, its key, the key before the last edit
    tiers, quote,                   \* SpliceTier rows, the last price_for_splices call
    types, lookup, posted,          \* DeviceType rows, the last price_for_device_type call,
                                    \* the last POST /settings/device-type that saved
    upload, ipc, raw, priced, records,  \* one POST / of a CSV file
    wb, xpc, attempts, result       \* one call of read_excel_smart

hvars == <<hdr, hkey, hprev, hedit>>
tvars == <<tiers, quote>>
dvars == <<types, lookup, posted>>
ivars == <<upload, ipc, raw, priced, records>>
xvars == <<wb, xpc, attempts, result>>
vars == <<hdr, hkey, hprev, hedit, tiers, quote, types, lookup, posted,
          upload, ipc, raw, priced, records, wb, xpc, attempts, result>>

(***************************************************************************)
(* Bounds of the model.                                                     *)
(***************************************************************************)
MaxLabelLen == 4
MaxSplices == 2
MaxTiers == 2
MaxTypes == 2
MaxCsvCols == 2
MaxCsvRows == 2

\* F(v), with v worked out once before F uses it.
With(v, F(_)) == CHOOSE out \in {F(x) : x \in {v}} : TRUE

(***************************************************************************)
(* Python values that reach the helpers: None, an int, a str.               *)
(***************************************************************************)
PyNone == [k |-> "none"]
PyInt(v) == [k |-> "int", v |-> v]
PyStr(s) == [k |-> "str", s |-> s]

\* The characters re's \s and str.strip() treat as whitespace.
Whitespace == {" ", "\t"}

\* str.lower() on one character.
LowerChar(c) ==
    CASE c = "A" -> "a" [] c = "B" -> "b" [] c = "C" -> "c" [] c = "D" -> "d"
      [] c = "E" -> "e" [] c = "F" -> "f" [] c = "G" -> "g" [] c = "H" -> "h"
      [] c = "I" -> "i" [] c = "J" -> "j" [] c = "K" -> "k" [] c = "L" -> "l"
      [] c = "M" -> "m" [] c = "N" -> "n" [] c = "O" -> "o" [] c = "P" -> "p"
      [] c = "Q" -> "q" [] c = "R" -> "r" [] c = "S" -> "s" [] c = "T" -> "t"
      [] c = "U" -> "u" [] c = "V" -> "v" [] c = "W" -> "w" [] c = "X" -> "x"
      [] c = "Y" -> "y" [] c = "Z" -> "z"
      [] c = "A~" -> "a~" [] c = "O~" -> "o~" [] c = "C," -> "c," [] c = "U'" -> "u'"
      [] OTHER -> c

Lower(s) == [i \in 1..Len(s) |-> LowerChar(s[i])]

RECURSIVE LStrip(_)
LStrip(s) == IF s = <<>> \/ s[1] \notin Whitespace THEN s ELSE LStrip(Tail(s))

RECURSIVE RStrip(_)
RStrip(s) ==
    IF s = <<>> \/ s[Len(s)] \notin Whitespace THEN s
    ELSE RStrip(SubSeq(s, 1, Len(s) - 1))

\* str.strip()
Strip(s) == RStrip(LStrip(s))

\* re.sub(r"\s+", " ", s)
RECURSIVE CollapseWhitespace(_)
CollapseWhitespace(s) ==
    IF s = <<>> THEN <<>>
    ELSE IF s[1] \in Whitespace THEN <<" ">> \o CollapseWhitespace(LStrip(s))
    ELSE <<s[1]>> \o CollapseWhitespace(Tail(s))

\* The decimal digits of a natural number, as str(int) writes them.
DigitChar(d) ==
    CASE d = 0 -> "0" [] d = 1 -> "1" [] d = 2 -> "2" [] d = 3 -> "3" [] d = 4 -> "4"
      [] d = 5 -> "5" [] d = 6 -> "6" [] d = 7 -> "7" [] d = 8 -> "8" [] d = 9 -> "9"

RECURSIVE NatStr(_)
NatStr(n) == IF n < 10 THEN <<DigitChar(n)>> ELSE NatStr(n \div 10) \o <<DigitChar(n % 10)>>

\* str(x) of a Python value that is not None.
PyToStr(x) ==
    CASE x.k = "str" -> x.s
      [] x.k = "int" -> IF x.v < 0 THEN <<"-">> \o NatStr(0 - x.v) ELSE NatStr(x.v)

\* The mutants of normalize_col: one forgets to collapse inner whitespace,
\* one forgets to lower-case.
normalize_col_no_collapse(col) ==
    IF col = PyNone THEN <<>> ELSE Lower(Strip(PyToStr(col)))

normalize_col(col) ==
    IF col = PyNone THEN <<>>
    ELSE Lower(CollapseWhitespace(Strip(PyToStr(col))))

(***************************************************************************)
(* Header labels and the edits between labels that "differ only in" case,   *)
(* outer whitespace, the length of an inner whitespace run, or a diacritic. *)
(***************************************************************************)
HeaderChars == {"a", "A", "a~", "A~", " ", "\t"}

RECURSIVE SeqsUpTo(_, _)
SeqsUpTo(S, n) ==
    IF n = 0 THEN {<<>>}
    ELSE LET shorter == SeqsUpTo(S, n - 1)
         IN  shorter \cup {Append(t, c) : t \in {u \in shorter : Len(u) = n - 1}, c \in S}

HeaderLabels ==
    {PyNone, PyInt(0), PyInt(12)} \cup {PyStr(s) : s \in SeqsUpTo(HeaderChars, MaxLabelLen)}

\* The other case of a letter (the letter itself when it has none).
SwapCase(c) ==
    CASE c = "a" -> "A" [] c = "A" -> "a" [] c = "a~" -> "A~" [] c = "A~" -> "a~"
      [] OTHER -> c

\* The same letter with its diacritic added or removed, case kept.
SwapDiacritic(c) ==
    CASE c = "a" -> "a~" [] c = "a~" -> "a" [] c = "A" -> "A~" [] c = "A~" -> "A"
      [] OTHER -> c

InsertAt(s, i, c) == SubSeq(s, 1, i - 1) \o <<c>> \o SubSeq(s, i, Len(s))
RemoveAt(s, i) == SubSeq(s, 1, i - 1) \o SubSeq(s, i + 1, Len(s))
ReplaceAt(s, i, c) == [s EXCEPT ![i] = c]

\* Position i of s lies strictly inside the text, between two non-blank ends.
InnerWhitespace(s, i) ==
    /\ s[i] \in Whitespace
    /\ \E j \in 1..(i - 1) : s[j] \notin Whitespace
    /\ \E j \in (i + 1)..Len(s) : s[j] \notin Whitespace

\* normalize_col(col) on a new label.
Normalize(l, edit) ==
    /\ hdr' = l
    /\ hkey' = normalize_col(l)
    /\ hprev' = hkey
    /\ hedit' = edit

\* The same label in another letter case.
EditCase ==
    /\ UNCHANGED <<tvars, dvars, ivars, xvars>>
    /\ hdr.k = "str"
    /\ \E i \in 1..Len(hdr.s) :
          /\ SwapCase(hdr.s[i]) # hdr.s[i]
          /\ Normalize(PyStr(ReplaceAt(hdr.s, i, SwapCase(hdr.s[i]))), "case")

\* The same label with one more or one less blank at an end.
EditOuterWhitespace ==
    /\ UNCHANGED <<tvars, dvars, ivars, xvars>>
    /\ hdr.k = "str"
    /\ \/ /\ Len(hdr.s) < MaxLabelLen
          /\ \E w \in Whitespace :
                \/ Normalize(PyStr(<<w>> \o hdr.s), "outer")
                \/ Normalize(PyStr(Append(hdr.s, w)), "outer")
       \/ /\ hdr.s # <<>> /\ hdr.s[1] \in Whitespace
          /\ Normalize(PyStr(Tail(hdr.s)), "outer")
       \/ /\ hdr.s # <<>> /\ hdr.s[Len(hdr.s)] \in Whitespace
          /\ Normalize(PyStr(SubSeq(hdr.s, 1, Len(hdr.s) - 1)), "outer")

\* The same label with an inner whitespace run one longer or one shorter.
EditInnerRun ==
    /\ UNCHANGED <<tvars, dvars, ivars, xvars>>
    /\ hdr.k = "str"
    /\ \E i \in 1..Len(hdr.s) :
          /\ InnerWhitespace(hdr.s, i)
          /\ \/ /\ Len(hdr.s) < MaxLabelLen
                /\ \E w \in Whitespace : Normalize(PyStr(InsertAt(hdr.s, i, w)), "run")
             \/ /\ i > 1 /\ hdr.s[i - 1] \in Whitespace
                /\ Normalize(PyStr(RemoveAt(hdr.s, i)), "run")

\* The same label with one diacritic added or removed.
EditDiacritic ==
    /\ UNCHANGED <<tvars, dvars, ivars, xvars>>
    /\ hdr.k = "str"
    /\ \E i \in 1..Len(hdr.s) :
          /\ SwapDiacritic(hdr.s[i]) # hdr.s[i]
          /\ Normalize(PyStr(ReplaceAt(hdr.s, i, SwapDiacritic(hdr.s[i]))), "diacritic")

HeaderNext == EditCase \/ EditOuterWhitespace \/ EditInnerRun \/ EditDiacritic

(***************************************************************************)
(* SpliceTier rows and price_for_splices.  A row is kept by its column      *)
(* values (the id column is read by no query below but the delete route,    *)
(* which names one row).  max_splices is PyNone for "no upper limit".       *)
(***************************************************************************)
TierPrices == {1500, 2000}
TierMins == 0..MaxSplices
TierMaxes == {PyNone} \cup {PyInt(v) : v \in 0..MaxSplices}
Counts == (0 - 1)..(MaxSplices + 1)

NoQuote == [k |-> "none"]

\* A mutant of TierMatches: the upper limit is taken as exclusive.
TierMatches_exclusive_max(t, n) ==
    /\ t.min_splices <= n
    /\ IF t.max_splices = PyNone THEN TRUE ELSE t.max_splices.v > n

\* The filter of the query: min_splices <= n AND (max_splices >= n OR max_splices IS NULL).
TierMatches(t, n) ==
    /\ t.min_splices <= n
    /\ IF t.max_splices = PyNone THEN TRUE ELSE t.max_splices.v >= n

\* A mutant of first_tier: the rows are ordered by min_splices ascending.
first_tier_ascending(n) ==
    LET matching == {t \in tiers : TierMatches(t, n)}
    IN  {t \in matching : \A u \in matching : t.min_splices <= u.min_splices}

\* .order_by(min_splices.desc()).first(): the rows the query can return.  Rows
\* with equal min_splices come in an order the database chooses.
first_tier(n) ==
    LET matching == {t \in tiers : TierMatches(t, n)}
    IN  {t \in matching : \A u \in matching : u.min_splices <= t.min_splices}

\* The values price_for_splices(n) can return.
price_for_splices(n) ==
    IF first_tier(n) = {} THEN {0}
    ELSE {n * t.price_per_splice : t \in first_tier(n)}

\* POST /settings/splice-tier
add_splice_tier ==
    /\ UNCHANGED <<hvars, dvars, ivars, xvars>>
    /\ Cardinality(tiers) < MaxTiers
    /\ \E mn \in TierMins, mx \in TierMaxes, price \in TierPrices :
          tiers' = tiers \cup
             {[min_splices |-> mn, max_splices |-> mx, price_per_splice |-> price]}
    /\ quote' = NoQuote

\* GET /settings/splice-tier/delete/<tid>
delete_splice_tier ==
    /\ UNCHANGED <<hvars, dvars, ivars, xvars>>
    /\ \E t \in tiers : tiers' = tiers \ {t}
    /\ quote' = NoQuote

\* One call price_for_splices(n) against the configured rows.
PriceForSplices ==
    /\ UNCHANGED <<hvars, dvars, ivars, xvars>>
    /\ \E n \in Counts : \E p \in price_for_splices(n) :
          quote' = [k |-> "quote", n |-> n, price |-> p]
    /\ UNCHANGED tiers

TiersNext == add_splice_tier \/ delete_splice_tier \/ PriceForSplices

(***************************************************************************)
(* DeviceType rows and price_for_device_type.  A row is [name, value]; the  *)
(* name column is unique, so a row is named by its name.                    *)
(***************************************************************************)
DeviceNames == {<<"O", "N", "T">>, <<"o", "n", "t">>, <<"O", "n", "t">>, <<"O", "L", "T">>, <<"O", "_", "T">>, <<"%">>}
DeviceValues == {15000, 20000}
TypeQueries == DeviceNames \cup {<<>>, <<"O", "N">>, <<"O", "%">>}

\* SQL's s LIKE pat with no escape character: "%" stands for any run of
\* characters, "_" for any one character, another character for itself.
RECURSIVE LikeMatch(_, _)
LikeMatch(pat, s) ==
    IF pat = <<>> THEN s = <<>>
    ELSE IF pat[1] = "%" THEN
        LikeMatch(Tail(pat), s) \/ (s # <<>> /\ LikeMatch(pat, Tail(s)))
    ELSE IF pat[1] = "_" THEN
        s # <<>> /\ LikeMatch(Tail(pat), Tail(s))
    ELSE s # <<>> /\ s[1] = pat[1] /\ LikeMatch(Tail(pat), Tail(s))

\* DeviceType.name.ilike(pat): lower(name) LIKE lower(pat).
ILike(name, pat) == LikeMatch(Lower(pat), Lower(name))

\* DeviceType.query.filter(DeviceType.name.ilike(pat)).first(): the rows the
\* query can return (with several matching rows the database chooses).
first_device_type(pat) == {d \in types : ILike(d.name, pat)}

\* The values price_for_device_type(type_name) can return.
price_for_device_type(type_name) ==
    IF type_name = <<>> THEN {0}
    ELSE IF first_device_type(type_name) = {} THEN {0}
    ELSE {d.value : d \in first_device_type(type_name)}

\* POST /settings/device-type with a name (an empty name is refused with a
\* message and changes nothing).
add_device_type ==
    /\ UNCHANGED <<hvars, tvars, ivars, xvars>>
    /\ \E form_name \in DeviceNames, value \in DeviceValues :
          LET name == Strip(form_name)
          IN  /\ name # <<>>
              /\ IF first_device_type(name) # {}
                 THEN \E existing \in first_device_type(name) :
                         types' = (types \ {existing}) \cup
                                     {[name |-> existing.name, value |-> value]}
                 ELSE /\ Cardinality(types) < MaxTypes
                      /\ types' = types \cup {[name |-> name, value |-> value]}
              /\ posted' = [k |-> "add", name |-> name, value |-> value, before |-> types]
    /\ lookup' = NoQuote

\* GET /settings/device-type/delete/<tid>
delete_device_type ==
    /\ UNCHANGED <<hvars, tvars, ivars, xvars>>
    /\ \E d \in types : types' = types \ {d}
    /\ lookup' = NoQuote
    /\ posted' = NoQuote

\* One call price_for_device_type(type_name) against the configured rows.
PriceForDeviceType ==
    /\ UNCHANGED <<hvars, tvars, ivars, xvars>>
    /\ \E type_name \in TypeQueries : \E v \in price_for_device_type(type_name) :
          lookup' = [k |-> "lookup", type_name |-> type_name, value |-> v]
    /\ posted' = NoQuote
    /\ UNCHANGED types

DeviceNext == add_device_type \/ delete_device_type \/ PriceForDeviceType

(***************************************************************************)
(* Header resolution: HEADER_MAP, match_target and the renaming steps of    *)
(* parse_dataframe.  A pattern is a sequence of atoms: exactly one          *)
(* character of a set, at most one character of a set, or \s*.              *)
(***************************************************************************)
One(cs) == [a |-> "one", cs |-> cs]
Opt(cs) == [a |-> "opt", cs |-> cs]
WsStar == [a |-> "ws*", cs |-> Whitespace]
Lit(w) == [i \in 1..Len(w) |-> One({w[i]})]

\* re.match(pat, c) for a pattern written ^...$ and a text without a newline.
RECURSIVE ReMatch(_, _)
ReMatch(pat, c) ==
    IF pat = <<>> THEN c = <<>>
    ELSE LET atom == pat[1]
         IN  CASE atom.a = "one" ->
                    c # <<>> /\ c[1] \in atom.cs /\ ReMatch(Tail(pat), Tail(c))
               [] atom.a = "opt" ->
                    \/ ReMatch(Tail(pat), c)
                    \/ c # <<>> /\ c[1] \in atom.cs /\ ReMatch(Tail(pat), Tail(c))
               [] atom.a = "ws*" ->
                    \/ ReMatch(Tail(pat), c)
                    \/ c # <<>> /\ c[1] \in atom.cs /\ ReMatch(pat, Tail(c))

\* re.search(word, c) for a pattern that is a plain word.
ReSearch(word, c) ==
    \E i \in 0..(Len(c) - Len(word)) : SubSeq(c, i + 1, i + Len(word)) = word

\* The canonical column names, the sheet tag and the price columns.
F_type == PyStr(<<"t", "y", "p", "e">>)
F_map == PyStr(<<"m", "a", "p">>)
F_splices == PyStr(<<"s", "p", "l", "i", "c", "e", "s">>)
F_device == PyStr(<<"d", "e", "v", "i", "c", "e">>)
F_created_date == PyStr(<<"c", "r", "e", "a", "t", "e", "d", "_", "d", "a", "t", "e">>)
F_sheet == PyStr(<<"_", "_", "s", "h", "e", "e", "t", "_", "_">>)
F_price_splices == PyStr(<<"p", "r", "i", "c", "e", "_", "s", "p", "l", "i", "c", "e", "s">>)
F_price_device == PyStr(<<"p", "r", "i", "c", "e", "_", "d", "e", "v", "i", "c", "e">>)
F_total == PyStr(<<"t", "o", "t", "a", "l">>)

\* fus(?:ões|oes)
Fusoes == Lit(<<"f", "u", "s">>) \o <<One({"o~", "o"})>> \o Lit(<<"e", "s">>)

HEADER_MAP == <<
    [target |-> F_type,
     patterns |-> <<Lit(<<"t", "y", "p", "e">>), Lit(<<"t", "i", "p", "o">>), Lit(<<"c", "a", "t", "e", "g", "o", "r", "y">>), Lit(<<"c", "l", "a", "s", "s", "e">>)>>],
    [target |-> F_map,
     patterns |-> <<Lit(<<"m", "a", "p">>), Lit(<<"m", "a", "p", "a">>), Lit(<<"m", "a", "p", "_", "i", "d">>), Lit(<<"i", "d", "_", "m", "a", "p", "a">>),
                    Lit(<<"m", "a", "p", " ", "n", "a", "m", "e">>), Lit(<<"n", "o", "m", "e", " ", "d", "o", " ", "m", "a", "p", "a">>)>>],
    [target |-> F_splices,
     patterns |-> <<Lit(<<"s", "p", "l", "i", "c", "e">>) \o <<Opt({"s"})>>,
                    Fusoes,
                    Lit(<<"q", "t", "d">>) \o <<WsStar>> \o Fusoes,
                    Lit(<<"s", "p", "l", "i", "c", "e", " ", "c", "o", "u", "n", "t">>),
                    Lit(<<"n">>) \o <<One({"u'", "u"})>> \o Lit(<<"m", "e", "r", "o">>) \o <<WsStar>>
                        \o Lit(<<"d", "e">>) \o <<WsStar>> \o Fusoes>>],
    [target |-> F_device,
     patterns |-> <<Lit(<<"d", "e", "v", "i", "c", "e">>), Lit(<<"d", "i", "s", "p", "o", "s", "i", "t", "i", "v", "o">>), Lit(<<"a", "p", "a", "r", "e", "l", "h", "o">>),
                    Lit(<<"e", "q", "u", "i", "p">>), Lit(<<"e", "q", "u", "i", "p", "a", "m", "e", "n", "t", "o">>), Lit(<<"s", "e", "r", "i", "a", "l">>),
                    Lit(<<"i", "d">>) \o <<WsStar>> \o Lit(<<"d", "e", "v", "i", "c", "e">>)>>],
    [target |-> F_created_date,
     patterns |-> <<Lit(<<"c", "r", "e", "a", "t", "e", "d">>) \o <<Opt({"_", " "})>> \o Lit(<<"a", "t">>),
                    Lit(<<"d", "a", "t", "a">>) \o <<WsStar>> \o Lit(<<"d", "e">>) \o <<WsStar>> \o Lit(<<"c", "r", "i", "a">>)
                        \o <<One({"c,", "c"}), One({"a", "a~"})>> \o Lit(<<"o">>),
                    Lit(<<"d", "a", "t", "a">>), Lit(<<"d", "a", "t", "e">>), Lit(<<"c", "r", "e", "a", "t", "e", "d">>)>>] >>

\* match_target(col): the first target of HEADER_MAP one of whose patterns
\* matches the normalized label, None when there is none.
match_target(col) ==
    LET c == normalize_col(col)
        hits == {t \in 1..Len(HEADER_MAP) :
                    \E p \in 1..Len(HEADER_MAP[t].patterns) :
                        ReMatch(HEADER_MAP[t].patterns[p], c)}
    IN  IF hits = {} THEN PyNone
        ELSE HEADER_MAP[CHOOSE t \in hits : \A u \in hits : t <= u].target

Range(f) == {f[i] : i \in DOMAIN f}

\* The loop that fills the dict renamed (label -> target), from column i on:
\* a column takes its target unless an earlier column took that target.
RECURSIVE BuildRenamed(_, _, _)
BuildRenamed(columns, i, renamed) ==
    IF i > Len(columns) THEN renamed
    ELSE LET col == columns[i]
             target == match_target(col)
         IN  IF target # PyNone /\ target \notin Range(renamed)
             THEN BuildRenamed(columns, i + 1,
                     [c \in (DOMAIN renamed) \cup {col} |-> IF c = col THEN target ELSE renamed[c]])
             ELSE BuildRenamed(columns, i + 1, renamed)

\* df.rename(columns=renamed): every column whose label is a key is relabelled.
RenameColumns(columns, renamed) ==
    [i \in 1..Len(columns) |->
        IF columns[i] \in DOMAIN renamed THEN renamed[columns[i]] ELSE columns[i]]

\* ensure(field, cands): when no column is named field, the first column whose
\* normalized label contains one of the words is renamed to field.
ensure(columns, field, cands) ==
    IF field \in Range(columns) THEN columns
    ELSE LET hits == {i \in 1..Len(columns) :
                         \E w \in cands : ReSearch(w, normalize_col(columns[i]))}
         IN  IF hits = {} THEN columns
             ELSE LET cand == columns[CHOOSE i \in hits : \A j \in hits : i <= j]
                  IN  RenameColumns(columns, [c \in {cand} |-> field])

\* The columns of work after the renaming by header and the five ensure calls.
ResolveColumns(columns) ==
    With(RenameColumns(columns, BuildRenamed(columns, 1, <<>>)), LAMBDA w0 :
    With(ensure(w0, F_type, {<<"t", "y", "p", "e">>, <<"t", "i", "p", "o">>, <<"c", "a", "t", "e", "g", "o", "r", "y">>}), LAMBDA w1 :
    With(ensure(w1, F_map, {<<"m", "a", "p">>, <<"m", "a", "p", "a">>}), LAMBDA w2 :
    With(ensure(w2, F_splices, {<<"s", "p", "l", "i", "c", "e">>, <<"f", "u", "s">>}), LAMBDA w3 :
    With(ensure(w3, F_device, {<<"d", "e", "v", "i", "c", "e">>, <<"d", "i", "s", "p", "o", "s", "i", "t", "i", "v", "o">>, <<"a", "p", "a", "r", "e", "l", "h", "o">>, <<"e", "q", "u", "i", "p">>}), LAMBDA w4 :
        ensure(w4, F_created_date, {<<"c", "r", "e", "a", "t", "e", "d">>, <<"d", "a", "t", "a">>, <<"d", "a", "t", "e">>}))))))

(***************************************************************************)
(* Tables.  A DataFrame is [columns, rows]: the column labels in order and  *)
(* the rows in order; a row is [src, cells] with one cell per column, src   *)
(* naming the place the row was read from.  A cell is NaN, an int, a float  *)
(* (in thousandths), a str or a Timestamp.                                  *)
(***************************************************************************)
NaN == [k |-> "nan"]
PyFloat(milli) == [k |-> "float", milli |-> milli]
Timestamp(v) == [k |-> "ts", v |-> v]
Raise == [k |-> "raise"]

Indices(columns, label) == {i \in 1..Len(columns) : columns[i] = label}
HasColumn(columns, label) == Indices(columns, label) # {}

\* The set of indices as a sequence in ascending order.
RECURSIVE Ascending_seq(_)
Ascending_seq(S) ==
    IF S = {} THEN <<>>
    ELSE LET m == CHOOSE i \in S : \A j \in S : i <= j
         IN  <<m>> \o Ascending_seq(S \ {m})

\* work[keep] with keep the canonical names some column carries: for every
\* label of keep in turn, every column carrying it.
RECURSIVE SelectIndices(_, _)
SelectIndices(columns, keep) ==
    IF keep = <<>> THEN <<>>
    ELSE Ascending_seq(Indices(columns, keep[1])) \o SelectIndices(columns, Tail(keep))

\* Digits, with an optional minus sign before them.
IsDigits(s) == s # <<>> /\ \A i \in 1..Len(s) : s[i] \in {"0", "1", "2", "3", "4", "5", "6", "7", "8", "9"}

DigitValue(c) == CHOOSE d \in 0..9 : DigitChar(d) = c

RECURSIVE DigitsValue(_)
DigitsValue(s) ==
    IF s = <<>> THEN 0 ELSE 10 * DigitsValue(SubSeq(s, 1, Len(s) - 1)) + DigitValue(s[Len(s)])

\* pd.to_numeric(cell, errors="coerce"): a number stays, a text of digits is
\* read as an int, anything else becomes NaN.
to_numeric(cell) ==
    CASE cell.k = "int" -> cell
      [] cell.k = "float" -> cell
      [] cell.k = "str" ->
            IF IsDigits(cell.s) THEN PyInt(DigitsValue(cell.s))
            ELSE IF cell.s # <<>> /\ cell.s[1] = "-" /\ IsDigits(Tail(cell.s))
                 THEN PyInt(0 - DigitsValue(Tail(cell.s)))
                 ELSE NaN
      [] OTHER -> NaN

\* int(x) of a float: the fraction is cut off, toward zero.
Truncate(milli) == IF milli >= 0 THEN milli \div 1000 ELSE 0 - ((0 - milli) \div 1000)

\* pd.to_numeric(..., errors="coerce").fillna(0).astype(int) on one cell.
CoerceSplices(cell) ==
    LET n == to_numeric(cell)
    IN  CASE n.k = "int" -> n
          [] n.k = "float" -> PyInt(Truncate(n.milli))
          [] OTHER -> PyInt(0)

\* pd.to_datetime(cell, errors="coerce"): a number is a time, the texts of
\* the model are no dates and become NaT.
to_datetime(cell) ==
    CASE cell.k = "int" -> Timestamp(cell.v)
      [] cell.k = "ts" -> cell
      [] OTHER -> NaN

CanonicalOrder == <<F_type, F_map, F_splices, F_device, F_created_date>>

\* sub = work[keep].copy() keeps every row, in order.
KeptRows(rows) == rows

\* The conversions of parse_dataframe on one cell of a kept column.
ConvertCell(label, cell) ==
    IF label = F_created_date THEN to_datetime(cell)
    ELSE IF label = F_splices THEN CoerceSplices(cell)
    ELSE cell

\* parse_dataframe(df, sheet_name): the table sub, or Raise; work is the
\* column list after header resolution.  to_datetime and to_numeric raise
\* when two columns carry the name, because sub[name] is then a DataFrame.
parse_dataframe(df, sheet_name) ==
    With(ResolveColumns(df.columns), LAMBDA work :
    With(SelectIndices(work, CanonicalOrder), LAMBDA idx :
    With([j \in 1..Len(idx) |-> work[idx[j]]], LAMBDA labels :
    With(KeptRows(df.rows), LAMBDA kept :
        IF Cardinality(Indices(labels, F_created_date)) > 1
           \/ Cardinality(Indices(labels, F_splices)) > 1
        THEN [k |-> "raise", work |-> work]
        ELSE [k |-> "frame", work |-> work,
              columns |-> labels \o <<F_sheet>>,
              rows |-> [r \in 1..Len(kept) |->
                          [src |-> kept[r].src,
                           cells |-> [j \in 1..Len(idx) |->
                                         ConvertCell(labels[j], kept[r].cells[idx[j]])]
                                     \o <<PyStr(sheet_name)>>]]]))))

(***************************************************************************)
(* dataframe_with_prices and persist_records.                               *)
(***************************************************************************)
\* The digits of the fraction of a float, at least one, no trailing zero.
FractionStr(f) ==
    IF f % 100 = 0 THEN <<DigitChar(f \div 100)>>
    ELSE IF f % 10 = 0 THEN <<DigitChar(f \div 100), DigitChar((f \div 10) % 10)>>
    ELSE <<DigitChar(f \div 100), DigitChar((f \div 10) % 10), DigitChar(f % 10)>>

\* str(x) of a cell that is not missing.
CellStr(cell) ==
    CASE cell.k = "str" -> cell.s
      [] cell.k = "int" -> PyToStr(cell)
      [] cell.k = "float" ->
            LET a == IF cell.milli < 0 THEN 0 - cell.milli ELSE cell.milli
            IN  (IF cell.milli < 0 THEN <<"-">> ELSE <<>>)
                    \o NatStr(a \div 1000) \o <<".">> \o FractionStr(a % 1000)

\* int(n) if pd.notna(n) else 0; Raise where int() raises.
CellInt(cell) ==
    CASE cell.k = "nan" -> PyInt(0)
      [] cell.k = "int" -> cell
      [] cell.k = "float" -> PyInt(Truncate(cell.milli))
      [] cell.k = "str" ->
            IF to_numeric(cell).k = "int" THEN to_numeric(cell) ELSE Raise
      [] OTHER -> Raise

AppendColumn(df, label, cell) ==
    [df EXCEPT !.columns = Append(@, label),
               !.rows = [r \in 1..Len(@) |-> [@[r] EXCEPT !.cells = Append(@, cell)]]]

FirstIndex(columns, label) == CHOOSE i \in Indices(columns, label) : \A j \in Indices(columns, label) : i <= j

\* df["total"] = df["price_splices"] + df["price_device"], for one row.
RowTotal(price_splices, price_device) == price_splices + price_device

\* The cells price_splices, price_device and total one row can get.
RowPrices(splices_cell, type_cell) ==
    {<<PyInt(ps), PyInt(pd), PyInt(RowTotal(ps, pd))>> :
        ps \in price_for_splices(CellInt(splices_cell).v),
        pd \in IF type_cell.k = "nan" THEN {0} ELSE price_for_device_type(CellStr(type_cell))}

RECURSIVE PricedRows(_, _, _)
PricedRows(rows, si, ti) ==
    IF rows = <<>> THEN {<<>>}
    ELSE {<<[rows[1] EXCEPT !.cells = @ \o p]>> \o rest :
              p \in RowPrices(rows[1].cells[si], rows[1].cells[ti]),
              rest \in PricedRows(Tail(rows), si, ti)}

\* dataframe_with_prices(df): the tables it can return, {Raise} when it
\* raises: df["type"] or df["splices"] names two columns, or int() refuses a
\* splices cell.
dataframe_with_prices(df) ==
    With(IF HasColumn(df.columns, F_type) THEN df ELSE AppendColumn(df, F_type, NaN),
         LAMBDA d1 :
    With(IF HasColumn(d1.columns, F_splices) THEN d1 ELSE AppendColumn(d1, F_splices, PyInt(0)),
         LAMBDA d2 :
    With(FirstIndex(d2.columns, F_splices), LAMBDA si :
    With(FirstIndex(d2.columns, F_type), LAMBDA ti :
        IF \/ Cardinality(Indices(d2.columns, F_type)) > 1
           \/ Cardinality(Indices(d2.columns, F_splices)) > 1
           \/ \E r \in 1..Len(d2.rows) : CellInt(d2.rows[r].cells[si]) = Raise
        THEN {Raise}
        ELSE {[k |-> "frame",
               columns |-> d2.columns \o <<F_price_splices, F_price_device, F_total>>,
               rows |-> rows] : rows \in PricedRows(d2.rows, si, ti)}))))

\* r.get(label, default) for a label carried by at most one column.
RowGet(df, row, label, default) ==
    IF HasColumn(df.columns, label) THEN row.cells[FirstIndex(df.columns, label)] ELSE default

\* str(x) if pd.notna(x) else None
StrOrNone(cell) == IF cell.k = "nan" THEN PyNone ELSE PyStr(CellStr(cell))

\* The Record persist_records builds from one row (src is the row it was
\* built from, kept for the claims; it is no column of the table).
RecordOf(df, row) ==
    [sheet |-> CellStr(RowGet(df, row, F_sheet, PyStr(<<>>))),
     type |-> StrOrNone(RowGet(df, row, F_type, PyStr(<<>>))),
     map |-> StrOrNone(RowGet(df, row, F_map, PyStr(<<>>))),
     splices |-> CellInt(RowGet(df, row, F_splices, PyInt(0))).v,
     device |-> StrOrNone(RowGet(df, row, F_device, PyStr(<<>>))),
     created_date |-> IF RowGet(df, row, F_created_date, NaN).k = "ts"
                      THEN RowGet(df, row, F_created_date, NaN) ELSE PyNone,
     price_splices |-> RowGet(df, row, F_price_splices, PyInt(0)).v,
     price_device |-> RowGet(df, row, F_price_device, PyInt(0)).v,
     total |-> RowGet(df, row, F_total, PyInt(0)).v,
     src |-> row.src]

\* persist_records(df): the Records added, Raise when a field of the Record
\* names two columns (pd.notna of a Series has no truth value).  A table
\* without rows adds nothing and reads no field.
persist_records(df) ==
    IF /\ df.rows # <<>>
       /\ \E label \in {F_type, F_map, F_splices, F_device} :
             Cardinality(Indices(df.columns, label)) > 1
    THEN Raise
    ELSE [k |-> "rows", rows |-> [r \in 1..Len(df.rows) |-> RecordOf(df, df.rows[r])]]

(***************************************************************************)
(* POST / with a CSV file.  upload is the table pd.read_csv made of it.     *)
(***************************************************************************)
CsvLabels == {PyStr(<<"T", "i", "p", "o">>), PyStr(<<"t", "y", "p", "e">>), PyStr(<<"s", "p", "l", "i", "c", "e", "s">>), PyStr(<<"M", "a", "p", " ", "I", "D">>),
              PyStr(<<"s", "e", "r", "i", "a", "l">>), PyStr(<<"n", "o", "t", "e", "s">>)}
CsvCells == {NaN, PyInt(0 - 5), PyInt(15), PyFloat(2500), PyStr(<<"O", "N", "T">>)}

\* The sequences of 1 to n different labels of S.
DistinctSeqs(S, n) == {s \in SeqsUpTo(S, n) : s # <<>> /\ \A i, j \in 1..Len(s) : i # j => s[i] # s[j]}

\* The tables of 0..MaxCsvRows rows under the column labels cols.
CsvUploads(cols) ==
    UNION {{[columns |-> cols,
             rows |-> [r \in 1..n |-> [src |-> r, cells |-> body[r]]]] :
                body \in [1..n -> [1..Len(cols) -> CsvCells]]} :
           n \in 0..MaxCsvRows}

\* The configurations an upload is priced against: none, the scenario of the
\* specification, a unit price with a tenth of a cent.
UploadTiers ==
    { {},
      {[min_splices |-> 0, max_splices |-> PyInt(10), price_per_splice |-> 2000],
       [min_splices |-> 11, max_splices |-> PyNone, price_per_splice |-> 1500]},
      {[min_splices |-> 0, max_splices |-> PyNone, price_per_splice |-> 1005]} }
UploadTypes == { {}, {[name |-> <<"O", "N", "T">>, value |-> 15000]} }

\* index(), POST of a .csv file: read and parse (an exception is reported
\* and the request ends), price, persist (an exception ends the request with
\* a server error and nothing is committed).
IndexPostCsv ==
    /\ UNCHANGED <<hvars, tvars, dvars, xvars>>
    /\ ipc = "idle"
    /\ \E parsed \in {parse_dataframe(upload, <<"C", "S", "V">>)} :
          /\ raw' = parsed
          /\ IF parsed.k = "raise"
             THEN /\ ipc' = "rejected" /\ priced' = PyNone /\ UNCHANGED records
             ELSE \E p \in dataframe_with_prices(parsed) :
                     /\ priced' = p
                     /\ IF p = Raise
                        THEN /\ ipc' = "crashed" /\ UNCHANGED records
                        ELSE \E saved \in {persist_records(p)} :
                                IF saved = Raise
                                THEN /\ ipc' = "crashed" /\ UNCHANGED records
                                ELSE /\ ipc' = "saved"
                                     /\ records' = records \o saved.rows
    /\ UNCHANGED upload

IngestNext == IndexPostCsv

(***************************************************************************)
(* Workbooks.  A sheet is [name, header_row, grid]: grid is the rows of the *)
(* sheet as written, every row a sequence of cells (NaN is a blank cell),   *)
(* and header_row is the row the author put the column titles on, so the    *)
(* rows below it are the data rows of the sheet.  A row read from a sheet   *)
(* has src = <<number of the sheet, number of the row in the grid>>.        *)
(* The workbooks of the model repeat no title within a row and resolve no   *)
(* created_date column.                                                     *)
(***************************************************************************)
MaxSheets == 2

Sheet(name, header_row, grid) == [name |-> name, header_row |-> header_row, grid |-> grid]

BodyRowA == <<PyStr(<<"s", "p", "l", "i", "c", "e">>), PyStr(<<"A", ",", " ", "B">>), PyInt(12), PyStr(<<"S", "N", "1", "2", "3", "4">>)>>
BodyRowB == <<PyStr(<<"t", "e", "s", "t">>), PyStr(<<"C", ",", " ", "D">>), PyInt(3), PyStr(<<"S", "N", "5", "6", "7", "8">>)>>
TitleRow == <<PyStr(<<"R", "e", "l", "a", "t", "o", "r", "i", "o">>), NaN, NaN, NaN>>

SheetPool == {
    \* titles on row 1, the four required columns
    Sheet(<<"S", "h", "e", "e", "t", "1">>, 1,
          << <<PyStr(<<"T", "i", "p", "o">>), PyStr(<<"M", "a", "p", "a">>), PyStr(<<"F", "u", "s", "o~", "e", "s">>), PyStr(<<"S", "e", "r", "i", "a", "l">>)>>,
             BodyRowA, BodyRowB >>),
    \* a caption on row 1, the titles on row 2
    Sheet(<<"S", "h", "e", "e", "t", "2">>, 2,
          << TitleRow,
             <<PyStr(<<"T", "i", "p", "o">>), PyStr(<<"M", "a", "p", "a">>), PyStr(<<"S", "p", "l", "i", "c", "e", "s">>), PyStr(<<"S", "e", "r", "i", "a", "l">>)>>,
             BodyRowA,
             <<PyStr(<<"t", "e", "s", "t">>), PyStr(<<"C", ",", " ", "D">>), NaN, PyStr(<<"S", "N", "5", "6", "7", "8">>)>> >>),
    \* titles on row 1, no device column
    Sheet(<<"S", "h", "e", "e", "t", "3">>, 1,
          << <<PyStr(<<"T", "i", "p", "o">>), PyStr(<<"M", "a", "p", "a">>), PyStr(<<"S", "p", "l", "i", "c", "e", "s">>)>>,
             SubSeq(BodyRowA, 1, 3), SubSeq(BodyRowB, 1, 3) >>),
    \* titles only
    Sheet(<<"S", "h", "e", "e", "t", "4">>, 1, << <<PyStr(<<"T", "i", "p", "o">>), PyStr(<<"M", "a", "p", "a">>)>> >>),
    \* nothing at all
    Sheet(<<"S", "h", "e", "e", "t", "5">>, 1, << >>),
    \* two columns that both count splices, one of them named "splices"
    Sheet(<<"S", "h", "e", "e", "t", "6">>, 1,
          << <<PyStr(<<"T", "i", "p", "o">>), PyStr(<<"F", "u", "s", "o", "e", "s">>), PyStr(<<"s", "p", "l", "i", "c", "e", "s">>)>>,
             <<PyStr(<<"s", "p", "l", "i", "c", "e">>), PyInt(12), PyInt(7)>>,
             <<PyStr(<<"t", "e", "s", "t">>), PyInt(3), PyInt(2)>> >>),
    \* a caption on row 1, English titles on row 2
    Sheet(<<"S", "h", "e", "e", "t", "7">>, 2,
          << TitleRow,
             <<PyStr(<<"T", "y", "p", "e">>), PyStr(<<"M", "a", "p">>), PyStr(<<"S", "p", "l", "i", "c", "e", "s">>), PyStr(<<"D", "e", "v", "i", "c", "e">>)>>,
             BodyRowA, BodyRowB >>) }

\* The workbooks of 1..n different sheets of the pool.
Workbooks(n) == DistinctSeqs(SheetPool, n)

(***************************************************************************)
(* xl.parse(nm, header=...): pandas.read_excel on one sheet.                *)
(***************************************************************************)
\* The cells of one column as pandas types them: a column of numbers with a
\* blank or a float in it is a float column.
ColumnCells(cells) ==
    IF \E r \in 1..Len(cells) : cells[r].k = "str" THEN cells
    ELSE IF \E r \in 1..Len(cells) : cells[r].k \in {"nan", "float"}
    THEN [r \in 1..Len(cells) |->
             IF cells[r].k = "int" THEN PyFloat(1000 * cells[r].v) ELSE cells[r]]
    ELSE cells

\* The rows of the grid from row first on, as the rows of a DataFrame.
DataRows(grid, first, sheet_no) ==
    LET n == IF Len(grid) < first THEN 0 ELSE Len(grid) - first + 1
        width == IF grid = <<>> THEN 0 ELSE Len(grid[1])
        column == [c \in 1..width |->
                      ColumnCells([r \in 1..n |-> grid[first + r - 1][c]])]
    IN  [r \in 1..n |->
            [src |-> <<sheet_no, first + r - 1>>,
             cells |-> [c \in 1..width |-> column[c][r]]]]

Unnamed == <<"U", "n", "n", "a", "m", "e", "d">>

\* The label of a blank title in column i (counted from 0).
UnnamedLabel(i) == PyStr(Unnamed \o <<":", " ">> \o NatStr(i))
UnnamedLevelLabel(i, level) ==
    PyStr(Unnamed \o <<":", " ">> \o NatStr(i) \o <<"_", "l", "e", "v", "e", "l", "_">> \o NatStr(level))

\* The labels read_excel makes of one title row.
TitleLabels(row) ==
    [i \in 1..Len(row) |-> IF row[i] = NaN THEN UnnamedLabel(i - 1) ELSE row[i]]

\* pandas' fill_mi_header from column i on: a blank title takes the title to
\* its left, unless the row above had a title of its own in this column.
RECURSIVE FillFrom(_, _, _, _)
FillFrom(row, control_row, i, last) ==
    IF i > Len(row) THEN [row |-> row, control_row |-> control_row]
    ELSE LET left == IF ~control_row[i] THEN row[i] ELSE last
         IN  IF row[i] = NaN
             THEN FillFrom([row EXCEPT ![i] = left], control_row, i + 1, left)
             ELSE FillFrom(row, [control_row EXCEPT ![i] = FALSE], i + 1, row[i])

fill_mi_header(row, control_row) ==
    IF row = <<>> THEN [row |-> row, control_row |-> control_row]
    ELSE FillFrom(row, control_row, 2, row[1])

StartsWith(s, prefix) == Len(s) >= Len(prefix) /\ SubSeq(s, 1, Len(prefix)) = prefix

RECURSIVE Join(_)
Join(parts) ==
    IF parts = <<>> THEN <<>>
    ELSE IF Len(parts) = 1 THEN parts[1]
    ELSE parts[1] \o <<" ">> \o Join(Tail(parts))

\* combine_multiindex_columns on the label pair of one column.
CombineLabel(tup) ==
    LET kept == SelectSeq(tup, LAMBDA x :
                    /\ x # PyNone
                    /\ Strip(PyToStr(x)) # <<>>
                    /\ ~StartsWith(PyToStr(x), Unnamed))
        parts == [j \in 1..Len(kept) |-> PyToStr(kept[j])]
    IN  IF parts = <<>> THEN PyStr(<<>>)
        ELSE IF Len(parts) > 1 /\ ~StartsWith(Lower(parts[1]), Lower(Unnamed))
        THEN PyStr(Strip(Join(parts)))
        ELSE PyStr(Strip(parts[Len(parts)]))

\* combine_multiindex_columns(df) on the two title rows read with header=[0,1].
combine_multiindex_columns(top, bottom) ==
    [i \in 1..Len(top) |->
        CombineLabel(<<IF top[i] = NaN THEN UnnamedLevelLabel(i - 1, 0) ELSE top[i],
                       IF bottom[i] = NaN THEN UnnamedLevelLabel(i - 1, 1) ELSE bottom[i]>>)]

\* xl.parse(nm, header=h) followed, for h = [0,1], by
\* combine_multiindex_columns: a table, or Raise.  A sheet without a row
\* reads as the empty DataFrame; a title row the sheet does not have raises.
XlParse(sheet, sheet_no, header) ==
    IF sheet.grid = <<>> THEN [k |-> "frame", columns |-> <<>>, rows |-> <<>>]
    ELSE IF header = "0"
    THEN [k |-> "frame", columns |-> TitleLabels(sheet.grid[1]),
          rows |-> DataRows(sheet.grid, 2, sheet_no)]
    ELSE IF Len(sheet.grid) < 2 THEN Raise
    ELSE IF header = "1"
    THEN [k |-> "frame", columns |-> TitleLabels(sheet.grid[2]),
          rows |-> DataRows(sheet.grid, 3, sheet_no)]
    ELSE With(fill_mi_header(sheet.grid[1], [i \in 1..Len(sheet.grid[1]) |-> TRUE]),
              LAMBDA top :
         With(fill_mi_header(sheet.grid[2], top.control_row), LAMBDA bottom :
              [k |-> "frame",
               columns |-> combine_multiindex_columns(top.row, bottom.row),
               rows |-> DataRows(sheet.grid, 3, sheet_no)]))

(***************************************************************************)
(* guess_fields_by_content.  A score is a fraction [num, den]; NoScore is   *)
(* the score of a column the loop skips (an exception, a continue) or a     *)
(* NaN, which no comparison takes for the better.                           *)
(***************************************************************************)
NoScore == [k |-> "noscore"]
ScoreLe(x, y) == x.num * y.den <= y.num * x.den

\* The first column whose score is greater than every score before it and
\* not less than any after it (0 when no column has a score).
FirstBest(scores) ==
    LET scored == {c \in 1..Len(scores) : scores[c] # NoScore}
        best == {c \in scored : \A d \in scored :
                    /\ ScoreLe(scores[d], scores[c])
                    /\ d < c => ~ScoreLe(scores[c], scores[d])}
    IN  IF best = {} THEN 0 ELSE CHOOSE c \in best : TRUE

\* df[c] is a column (a Series), not a table of columns of one name.
UniqueLabel(columns, c) == Cardinality(Indices(columns, columns[c])) = 1

\* astype(str) on one cell.
AsStr(cell) == IF cell = NaN THEN <<"n", "a", "n">> ELSE CellStr(cell)

\* The values f[i], i in S, in ascending order.
RECURSIVE SortedValues(_, _)
SortedValues(f, S) ==
    IF S = {} THEN <<>>
    ELSE LET m == CHOOSE i \in S : \A j \in S : f[i] <= f[j]
         IN  <<f[m]>> \o SortedValues(f, S \ {m})

\* Twice the median of an ascending sequence that is not empty.
TwiceMedian(s) ==
    IF Len(s) % 2 = 1 THEN 2 * s[(Len(s) + 1) \div 2]
    ELSE s[Len(s) \div 2] + s[Len(s) \div 2 + 1]

type_like == {<<"s", "p", "l", "i", "c", "e">>, <<"t", "e", "s", "t">>, <<"p", "l", "a", "c", "e", "m", "e", "n", "t">>, <<"s", "e", "r", "v", "i", "c", "e">>, <<"s", "p", "l", "i", "c", "i", "n", "g">>}

\* candidates["type"]: the first column more than 30% of whose cells are a
\* kind of work.
TypeCandidate(df) ==
    LET hits == {c \in 1..Len(df.columns) :
                    /\ UniqueLabel(df.columns, c)
                    /\ 10 * Cardinality({r \in 1..Len(df.rows) :
                              Lower(Strip(AsStr(df.rows[r].cells[c]))) \in type_like})
                          > 3 * Len(df.rows)}
    IN  IF hits = {} THEN PyNone
        ELSE df.columns[CHOOSE c \in hits : \A d \in hits : c <= d]

\* A number in thousandths.
NumMilli(n) == IF n.k = "int" THEN 1000 * n.v ELSE n.milli

\* The score of column c as the splices column: the share of whole numbers
\* among its numbers, plus 1 when their median is at most 200.
SplicesScore(df, c) ==
    IF ~UniqueLabel(df.columns, c) \/ df.rows = <<>> THEN NoScore
    ELSE LET nums == [r \in 1..Len(df.rows) |-> to_numeric(df.rows[r].cells[c])]
             valid == {r \in 1..Len(df.rows) : nums[r] # NaN}
             milli == [r \in valid |-> NumMilli(nums[r])]
         IN  IF 2 * Cardinality(valid) < Len(df.rows) THEN NoScore
             ELSE [num |-> Cardinality({r \in valid : milli[r] % 1000 = 0})
                           + (IF TwiceMedian(SortedValues(milli, valid)) <= 2 * 200000
                              THEN Cardinality(valid) ELSE 0),
                   den |-> Cardinality(valid)]

Truthy(label) == label # PyNone /\ label # PyStr(<<>>) /\ label # PyInt(0)

SplicesCandidate(df) ==
    LET best == FirstBest([c \in 1..Len(df.columns) |-> SplicesScore(df, c)])
    IN  IF best # 0 /\ Truthy(df.columns[best]) THEN df.columns[best] ELSE PyNone

DeviceChars ==
    {"a", "b", "c", "d", "e", "f", "g", "h", "i", "j", "k", "l", "m",
     "n", "o", "p", "q", "r", "s", "t", "u", "v", "w", "x", "y", "z",
     "A", "B", "C", "D", "E", "F", "G", "H", "I", "J", "K", "L", "M",
     "N", "O", "P", "Q", "R", "S", "T", "U", "V", "W", "X", "Y", "Z",
     "0", "1", "2", "3", "4", "5", "6", "7", "8", "9", "-", "_", "/"}

\* device_pattern.match(x) and not x.isdigit()
DeviceLike(x) ==
    /\ Len(x) >= 4
    /\ \A i \in 1..Len(x) : x[i] \in DeviceChars
    /\ ~IsDigits(x)

\* The score of column c as the device column: the share of its cells that
\* look like a serial number.
DeviceScore(df, c) ==
    IF ~UniqueLabel(df.columns, c) \/ df.rows = <<>> THEN NoScore
    ELSE [num |-> Cardinality({r \in 1..Len(df.rows) :
                      DeviceLike(Strip(AsStr(df.rows[r].cells[c])))}),
          den |-> Len(df.rows)]

DeviceCandidate(df) ==
    LET scores == [c \in 1..Len(df.columns) |-> DeviceScore(df, c)]
        best == FirstBest(scores)
    IN  IF best # 0 /\ 10 * scores[best].num >= 3 * scores[best].den
        THEN df.columns[best] ELSE PyNone

\* The score of column c as the map column: the share of its cells with a
\* comma, plus a hundredth of the median length of its cells.
MapScore(df, c) ==
    IF ~UniqueLabel(df.columns, c) \/ df.rows = <<>> THEN NoScore
    ELSE LET n == Len(df.rows)
             text == [r \in 1..n |-> AsStr(df.rows[r].cells[c])]
             length == [r \in 1..n |-> Len(text[r])]
         IN  [num |-> 200 * Cardinality({r \in 1..n : \E i \in 1..Len(text[r]) : text[r][i] = ","})
                       + n * TwiceMedian(SortedValues(length, 1..n)),
              den |-> 200 * n]

MapCandidate(df) ==
    LET best == FirstBest([c \in 1..Len(df.columns) |-> MapScore(df, c)])
    IN  IF best = 0 THEN PyNone ELSE df.columns[best]

\* The loop over candidates.items(): a field that no column is named yet
\* takes the column guessed for it.
RECURSIVE ApplyCandidates(_, _)
ApplyCandidates(columns, candidates) ==
    IF candidates = <<>> THEN columns
    ELSE LET k == candidates[1][1]
             src == candidates[1][2]
         IN  ApplyCandidates(
                 IF Truthy(src) /\ ~HasColumn(columns, k)
                 THEN RenameColumns(columns, [c \in {src} |-> k])
                 ELSE columns,
                 Tail(candidates))

\* candidates.items() as the loops have filled it: the fields in the order of
\* the dict, each with the column guessed for it or None.
Candidates(df) ==
    << <<F_type, TypeCandidate(df)>>, <<F_map, MapCandidate(df)>>,
       <<F_splices, SplicesCandidate(df)>>, <<F_device, DeviceCandidate(df)>> >>

guess_fields_by_content(df) ==
    With(Candidates(df), LAMBDA candidates :
            [df EXCEPT !.columns = ApplyCandidates(df.columns, candidates)])

(***************************************************************************)
(* read_excel_smart.                                                        *)
(***************************************************************************)
Required == {F_type, F_map, F_splices, F_device}
HasRequired(df) == Required \subseteq Range(df.columns)

\* The labels of the frames, each once, in the order they first appear.
RECURSIVE UnionColumns(_, _)
UnionColumns(frames, seen) ==
    IF frames = <<>> THEN seen
    ELSE LET fresh == SelectSeq(frames[1].columns, LAMBDA l : l \notin Range(seen))
         IN  UnionColumns(Tail(frames), seen \o fresh)

RECURSIVE ConcatRows(_, _)
ConcatRows(frames, columns) ==
    IF frames = <<>> THEN <<>>
    ELSE LET df == frames[1]
         IN  [r \in 1..Len(df.rows) |->
                 [src |-> df.rows[r].src,
                  cells |-> [j \in 1..Len(columns) |->
                                IF HasColumn(df.columns, columns[j])
                                THEN df.rows[r].cells[FirstIndex(df.columns, columns[j])]
                                ELSE NaN]]]
             \o ConcatRows(Tail(frames), columns)

RECURSIVE AllRows(_)
AllRows(frames) == IF frames = <<>> THEN <<>> ELSE frames[1].rows \o AllRows(Tail(frames))

\* pd.concat(frames, ignore_index=True) if frames else pd.DataFrame(): the
\* rows of the frames in order, under the union of their columns; Raise when
\* the frames differ in their columns and one has two columns of one name.
concat(frames) ==
    IF frames = <<>> THEN [k |-> "frame", columns |-> <<>>, rows |-> <<>>]
    ELSE IF \A i \in 1..Len(frames) : frames[i].columns = frames[1].columns
    THEN [k |-> "frame", columns |-> frames[1].columns, rows |-> AllRows(frames)]
    ELSE IF \E i \in 1..Len(frames) : \E c \in 1..Len(frames[i].columns) :
                ~UniqueLabel(frames[i].columns, c)
    THEN Raise
    ELSE With(UnionColumns(frames, <<>>), LAMBDA columns :
            [k |-> "frame", columns |-> columns, rows |-> ConcatRows(frames, columns)])

\* parse_dataframe on a table that may be Raise already.
ParseFrame(df, name) ==
    IF df = Raise THEN Raise
    ELSE With(parse_dataframe(df, name), LAMBDA sub :
            IF sub.k = "raise" THEN Raise
            ELSE [k |-> "frame", columns |-> sub.columns, rows |-> sub.rows])

GuessUnlessRequired(df) ==
    IF df = Raise \/ HasRequired(df) THEN df ELSE guess_fields_by_content(df)

\* The frame one strategy makes of one sheet.
SheetFrame(strategy, sheet, sheet_no) ==
    CASE strategy = "a" -> ParseFrame(XlParse(sheet, sheet_no, "0"), sheet.name)
      [] strategy = "b" ->
            GuessUnlessRequired(ParseFrame(XlParse(sheet, sheet_no, "01"), sheet.name))
      [] strategy = "c" ->
            GuessUnlessRequired(ParseFrame(XlParse(sheet, sheet_no, "1"), sheet.name))
      [] strategy = "d" ->
            ParseFrame(guess_fields_by_content(XlParse(sheet, sheet_no, "0")), sheet.name)

\* The body of the try block of one strategy: the table, or Raise.
Attempt(strategy, book) ==
    With([i \in 1..Len(book) |-> SheetFrame(strategy, book[i], i)], LAMBDA frames :
        IF \E i \in 1..Len(frames) : frames[i] = Raise THEN Raise ELSE concat(frames))

\* try normal header: returns when the four required fields are there.
TryNormalHeader ==
    /\ UNCHANGED <<hvars, tvars, dvars, ivars>>
    /\ xpc = "a"
    /\ \E df \in {Attempt("a", wb)} :
          IF df # Raise /\ HasRequired(df)
          THEN /\ result' = df /\ xpc' = "done"
               /\ attempts' = Append(attempts, [strategy |-> "a", outcome |-> "returned"])
          ELSE /\ xpc' = "b"
               /\ attempts' = Append(attempts,
                     [strategy |-> "a",
                      outcome |-> IF df = Raise THEN "raised" ELSE "incomplete"])
               /\ UNCHANGED result
    /\ UNCHANGED wb

\* try multi-row header: returns whatever it read, goes on when it raised.
TryMultiRowHeader ==
    /\ UNCHANGED <<hvars, tvars, dvars, ivars>>
    /\ xpc = "b"
    /\ \E df \in {Attempt("b", wb)} :
          IF df # Raise
          THEN /\ result' = df /\ xpc' = "done"
               /\ attempts' = Append(attempts, [strategy |-> "b", outcome |-> "returned"])
          ELSE /\ xpc' = "c"
               /\ attempts' = Append(attempts, [strategy |-> "b", outcome |-> "raised"])
               /\ UNCHANGED result
    /\ UNCHANGED wb

\* try using row 2 as header: returns whatever it read, goes on when it raised.
TryRow2Header ==
    /\ UNCHANGED <<hvars, tvars, dvars, ivars>>
    /\ xpc = "c"
    /\ \E df \in {Attempt("c", wb)} :
          IF df # Raise
          THEN /\ result' = df /\ xpc' = "done"
               /\ attempts' = Append(attempts, [strategy |-> "c", outcome |-> "returned"])
          ELSE /\ xpc' = "d"
               /\ attempts' = Append(attempts, [strategy |-> "c", outcome |-> "raised"])
               /\ UNCHANGED result
    /\ UNCHANGED wb

\* last resort, guess only: returns whatever it read, raises what was raised.
TryGuessOnly ==
    /\ UNCHANGED <<hvars, tvars, dvars, ivars>>
    /\ xpc = "d"
    /\ \E df \in {Attempt("d", wb)} :
          IF df # Raise
          THEN /\ result' = df /\ xpc' = "done"
               /\ attempts' = Append(attempts, [strategy |-> "d", outcome |-> "returned"])
          ELSE /\ xpc' = "raised"
               /\ attempts' = Append(attempts, [strategy |-> "d", outcome |-> "raised"])
               /\ UNCHANGED result
    /\ UNCHANGED wb

ExcelNext == TryNormalHeader \/ TryMultiRowHeader \/ TryRow2Header \/ TryGuessOnly

(***************************************************************************)
(* Specifications.  Each runs one part of the program; the variables of the *)
(* other parts stay at rest.                                                *)
(***************************************************************************)
InitHeader ==
    /\ hdr \in HeaderLabels /\ hkey = normalize_col(hdr) /\ hprev = hkey /\ hedit = "none"
    /\ tiers = {} /\ quote = NoQuote
    /\ types = {} /\ lookup = NoQuote /\ posted = NoQuote
    /\ upload = PyNone /\ ipc = "idle" /\ raw = PyNone /\ priced = PyNone /\ records = <<>>
    /\ wb = <<>> /\ xpc = "idle" /\ attempts = <<>> /\ result = PyNone

SpecHeader == InitHeader /\ [][HeaderNext]_vars

InitTiers ==
    /\ hdr = PyNone /\ hkey = <<>> /\ hprev = <<>> /\ hedit = "none"
    /\ tiers = {} /\ quote = NoQuote
    /\ types = {} /\ lookup = NoQuote /\ posted = NoQuote
    /\ upload = PyNone /\ ipc = "idle" /\ raw = PyNone /\ priced = PyNone /\ records = <<>>
    /\ wb = <<>> /\ xpc = "idle" /\ attempts = <<>> /\ result = PyNone

SpecTiers == InitTiers /\ [][TiersNext]_vars

InitDevice ==
    /\ hdr = PyNone /\ hkey = <<>> /\ hprev = <<>> /\ hedit = "none"
    /\ tiers = {} /\ quote = NoQuote
    /\ types = {} /\ lookup = NoQuote /\ posted = NoQuote
    /\ upload = PyNone /\ ipc = "idle" /\ raw = PyNone /\ priced = PyNone /\ records = <<>>
    /\ wb = <<>> /\ xpc = "idle" /\ attempts = <<>> /\ result = PyNone

SpecDevice == InitDevice /\ [][DeviceNext]_vars

InitIngest ==
    /\ hdr = PyNone /\ hkey = <<>> /\ hprev = <<>> /\ hedit = "none"
    /\ tiers \in UploadTiers /\ quote = NoQuote
    /\ types \in UploadTypes /\ lookup = NoQuote /\ posted = NoQuote
    /\ \E cols \in DistinctSeqs(CsvLabels, MaxCsvCols) : upload \in CsvUploads(cols)
    /\ ipc = "idle" /\ raw = PyNone /\ priced = PyNone /\ records = <<>>
    /\ wb = <<>> /\ xpc = "idle" /\ attempts = <<>> /\ result = PyNone

SpecIngest == InitIngest /\ [][IngestNext]_vars

InitExcel ==
    /\ hdr = PyNone /\ hkey = <<>> /\ hprev = <<>> /\ hedit = "none"
    /\ tiers = {} /\ quote = NoQuote
    /\ types = {} /\ lookup = NoQuote /\ posted = NoQuote
    /\ upload = PyNone /\ ipc = "idle" /\ raw = PyNone /\ priced = PyNone /\ records = <<>>
    /\ wb \in Workbooks(MaxSheets) /\ xpc = "a" /\ attempts = <<>> /\ result = PyNone

SpecExcel == InitExcel /\ [][ExcelNext]_vars

(***************************************************************************)
(* Claims about normalize_col (SpecHeader).                                 *)
(***************************************************************************)

InRange(t, n) ==
    /\ t.min_splices <= n
    /\ (t.max_splices = PyNone \/ t.max_splices.v >= n)

\* Two tiers share a splice count: the larger lower limit lies in both ranges.
Overlap(t, u) ==
    LET lo == IF t.min_splices >= u.min_splices THEN t.min_splices ELSE u.min_splices
    IN  InRange(t, lo) /\ InRange(u, lo)

NonOverlapping == \A t, u \in tiers : t # u => ~Overlap(t, u)
Ascending ==
    \A t, u \in tiers : t.min_splices < u.min_splices => t.price_per_splice <= u.price_per_splice

\* C1: price_for_splices(n) returns n times the unit price of the tier with the
\* largest min_splices among the tiers whose range holds n, and 0 when no
\* tier's range holds n.
C1_LargestMinTierPrices ==
    quote # NoQuote =>
        LET holding == {t \in tiers : InRange(t, quote.n)}
        IN  IF holding = {} THEN quote.price = 0
            ELSE \E t \in holding :
                    /\ \A u \in holding : u.min_splices <= t.min_splices
                    /\ quote.price = quote.n * t.price_per_splice

\* C1 happens: n lies in two overlapping tiers of different price and was
\* priced by the one with the larger min_splices.
C1_Witness ==
    /\ quote # NoQuote /\ quote.n > 0
    /\ \E t, u \in tiers :
          /\ InRange(t, quote.n) /\ InRange(u, quote.n)
          /\ t.min_splices < u.min_splices
          /\ t.price_per_splice # u.price_per_splice
          /\ quote.price = quote.n * u.price_per_splice

\* C3, as stated: with tiers that do not overlap and prices that ascend with
\* min_splices, price_for_splices(m) <= price_for_splices(n) for all m <= n,
\* counts in no tier's range included.
C3_MonotoneEverywhere ==
    (quote # NoQuote /\ NonOverlapping /\ Ascending) =>
        \A m \in Counts : m <= quote.n =>
            \A p \in price_for_splices(m) : p <= quote.price

\* C3, amended: with tiers (min_splices >= 0, unit price >= 0) that do not
\* overlap and prices that ascend with min_splices, price_for_splices(m) <=
\* price_for_splices(n) for all m <= n such that n lies in some tier's range.
C3_MonotoneIntoATier ==
    (/\ quote # NoQuote /\ NonOverlapping /\ Ascending
     /\ \E t \in tiers : InRange(t, quote.n)) =>
        \A m \in Counts : m <= quote.n =>
            \A p \in price_for_splices(m) : p <= quote.price

\* C3 happens: two tiers that do not overlap, the dearer one above; n was priced
\* in the upper one and a smaller count has a price of its own in the lower one.
C3_Witness ==
    /\ quote # NoQuote /\ NonOverlapping /\ Ascending
    /\ \E t, u \in tiers :
          /\ t.min_splices < u.min_splices
          /\ t.price_per_splice < u.price_per_splice
          /\ InRange(u, quote.n)
          /\ \E m \in Counts : m > 0 /\ m < quote.n /\ InRange(t, m)

(***************************************************************************)
(* Claims about price_for_device_type (SpecDevice).                         *)
(***************************************************************************)
\* Two names are equal ignoring case.
SameNameIgnoringCase(a, b) == Lower(a) = Lower(b)

\* C2: price_for_device_type(type_name) returns the value of the configured
\* DeviceType whose name equals type_name ignoring case, and 0 when type_name
\* is empty or no configured name equals it ignoring case (no partial, pattern
\* or fuzzy match).
C2_ExactNameIgnoringCase ==
    lookup # NoQuote =>
        LET equal == {d \in types : SameNameIgnoringCase(d.name, lookup.type_name)}
        IN  IF lookup.type_name = <<>> \/ equal = {} THEN lookup.value = 0
            ELSE \E d \in equal : lookup.value = d.value


\* C11: after any sequence of add_device_type and delete_device_type from the
\* empty configuration no two DeviceType rows have names equal ignoring case;
\* adding a name equal, ignoring case, to the name of an existing row sets that
\* row's value and changes no other row, and adding a name equal to none
\* creates exactly one new row and changes no existing row.
C11_NamesUniqueIgnoringCase ==
    /\ \A d, e \in types : SameNameIgnoringCase(d.name, e.name) => d = e
    /\ posted # NoQuote =>
          LET equal == {d \in posted.before : SameNameIgnoringCase(d.name, posted.name)}
          IN  IF equal # {}
              THEN types = (posted.before \ equal)
                              \cup {[name |-> d.name, value |-> posted.value] : d \in equal}
              ELSE types = posted.before
                              \cup {[name |-> posted.name, value |-> posted.value]}

(***************************************************************************)
(* Claims about the ingestion of an upload (SpecIngest).                    *)
(***************************************************************************)
\* x rounded half-up to the cent, x in thousandths and not negative.
RoundHalfUpToCents(x) == ((x + 5) \div 10) * 10

\* C4: for every row priced by dataframe_with_prices, and for the Record stored
\* from it, total is price_splices + price_device of that row rounded half-up
\* to 2 decimal places, so it never carries more than 2 decimal places.
C4_TotalRoundedToCents ==
    /\ (priced # PyNone /\ priced # Raise) =>
          \A r \in 1..Len(priced.rows) :
             LET ps == RowGet(priced, priced.rows[r], F_price_splices, PyInt(0)).v
                 pd == RowGet(priced, priced.rows[r], F_price_device, PyInt(0)).v
                 total == RowGet(priced, priced.rows[r], F_total, PyInt(0)).v
             IN  (ps >= 0 /\ pd >= 0) =>
                    (total = RoundHalfUpToCents(ps + pd) /\ total % 10 = 0)
    /\ \A i \in 1..Len(records) :
          (records[i].price_splices >= 0 /\ records[i].price_device >= 0) =>
             /\ records[i].total
                   = RoundHalfUpToCents(records[i].price_splices + records[i].price_device)
             /\ records[i].total % 10 = 0

\* C6: in every Record stored by an ingestion splices is an integer that is
\* not negative, whatever the cell held; without a splices column, and for an
\* empty or unreadable cell, it is 0.
C6_SplicesNeverNegative ==
    \A i \in 1..Len(records) :
        /\ records[i].splices \in Nat
        /\ (~HasColumn(raw.columns, F_splices)) => records[i].splices = 0
        /\ \A c \in Indices(raw.work, F_splices) :
              to_numeric(upload.rows[records[i].src].cells[c]) = NaN
                 => records[i].splices = 0

\* The six canonical fields of the specification.
F_splicer == PyStr(<<"s", "p", "l", "i", "c", "e", "r">>)
CanonicalSchema == {F_type, F_map, F_splices, F_device, F_created_date, F_splicer}

\* C8: ingesting a table with zero rows does not fail and yields a table with
\* zero rows in which the six canonical fields are all present as columns.
C8_EmptyInputYieldsSchema ==
    (ipc # "idle" /\ upload.rows = <<>>) =>
        /\ ipc = "saved"
        /\ raw.k = "frame" /\ raw.rows = <<>>
        /\ \A f \in CanonicalSchema : HasColumn(raw.columns, f)

\* C9: after header resolution no two columns of the table carry the same
\* canonical field name; of the columns that resolve to one field the leftmost
\* carries its name and every later one keeps its label.
C9_CanonicalNameClaimedOnce ==
    raw # PyNone =>
        /\ \A f \in Range(CanonicalOrder) : Cardinality(Indices(raw.work, f)) <= 1
        /\ \A i, j \in 1..Len(upload.columns) :
              (/\ i < j
               /\ match_target(upload.columns[i]) # PyNone
               /\ match_target(upload.columns[i]) = match_target(upload.columns[j])
               /\ \A h \in 1..(i - 1) :
                     match_target(upload.columns[h]) # match_target(upload.columns[i]))
              => /\ raw.work[i] = match_target(upload.columns[i])
                 /\ raw.work[j] = upload.columns[j]


(***************************************************************************)
(* Claims about read_excel_smart (SpecExcel).                               *)
(***************************************************************************)
Strategies == <<"a", "b", "c", "d">>

\* Strategy number s reads all four required fields out of the workbook.
Qualifies(s) ==
    LET df == Attempt(Strategies[s], wb)
    IN  df # Raise /\ HasRequired(df)

\* C5: read_excel_smart returns the result of the first of the strategies (a),
\* (b), (c), (d), in this order, whose result holds all four of type, map,
\* splices, device, every strategy before it having been tried; when no
\* strategy's result holds the four, it returns the result of (d).
C5_FirstQualifyingStrategyWins ==
    xpc = "done" =>
        LET qualifying == {s \in 1..4 : Qualifies(s)}
            first == CHOOSE s \in qualifying : \A t \in qualifying : s <= t
        IN  IF qualifying = {}
            THEN /\ result = Attempt("d", wb)
                 /\ [i \in 1..Len(attempts) |-> attempts[i].strategy] = Strategies
            ELSE /\ result = Attempt(Strategies[first], wb)
                 /\ [i \in 1..Len(attempts) |-> attempts[i].strategy]
                       = SubSeq(Strategies, 1, first)

\* The data rows of the workbook: for every sheet in turn, the rows below its
\* header row, top to bottom.
RECURSIVE DataRowsFrom(_)
DataRowsFrom(i) ==
    IF i > Len(wb) THEN <<>>
    ELSE [r \in 1..(IF Len(wb[i].grid) > wb[i].header_row
                    THEN Len(wb[i].grid) - wb[i].header_row ELSE 0) |->
             <<i, wb[i].header_row + r>>]
         \o DataRowsFrom(i + 1)

\* C7: the table read_excel_smart returns has one row for every data row of
\* the workbook, in the order of the sheets and, within a sheet, of its rows
\* (so r1 + ... + rk rows, none dropped, repeated or moved), and every row is
\* tagged in __sheet__ with the name of the sheet it came from.
C7_EveryDataRowInOrderTagged ==
    xpc = "done" =>
        /\ [r \in 1..Len(result.rows) |-> result.rows[r].src] = DataRowsFrom(1)
        /\ \A r \in 1..Len(result.rows) :
              /\ HasColumn(result.columns, F_sheet)
              /\ result.rows[r].cells[FirstIndex(result.columns, F_sheet)]
                    = PyStr(wb[result.rows[r].src[1]].name)

\* The column names that count as mapped: the canonical fields and the tag of
\* the source sheet.
Mapped == Range(CanonicalOrder) \cup {F_sheet}

\* The table the strategy hands to guess_fields_by_content for sheet number i.
GuessInput(strategy, i) ==
    CASE strategy = "b" -> ParseFrame(XlParse(wb[i], i, "01"), wb[i].name)
      [] strategy = "c" -> ParseFrame(XlParse(wb[i], i, "1"), wb[i].name)
      [] strategy = "d" -> XlParse(wb[i], i, "0")
      [] OTHER -> Raise

\* The strategy calls guess_fields_by_content on sheet number i.
GuessCalled(strategy, i) ==
    /\ GuessInput(strategy, i) # Raise
    /\ strategy = "d" \/ ~HasRequired(GuessInput(strategy, i))

\* The names of the columns after each step of the loop over the candidates.
GuessPass(df) ==
    [n \in 0..Len(Candidates(df)) |->
        ApplyCandidates(df.columns, SubSeq(Candidates(df), 1, n))]

\* C12: guess_fields_by_content only considers the columns not mapped yet: in
\* every call the returning strategy made, a column that carried a canonical
\* field name or the source-sheet tag before the call carries the same name
\* after it, a canonical field that was present names no further column, and
\* every column is renamed at most once in the pass.
C12_GuessKeepsMappedColumns ==
    xpc = "done" =>
        \A i \in 1..Len(wb) :
            GuessCalled(attempts[Len(attempts)].strategy, i) =>
                LET before == GuessInput(attempts[Len(attempts)].strategy, i)
                    after == guess_fields_by_content(before)
                    pass == GuessPass(before)
                IN  /\ \A c \in 1..Len(before.columns) :
                          before.columns[c] \in Mapped
                              => after.columns[c] = before.columns[c]
                    /\ \A f \in Required :
                          HasColumn(before.columns, f)
                              => Indices(after.columns, f) \subseteq Indices(before.columns, f)
                    /\ \A c \in 1..Len(before.columns) :
                          Cardinality({n \in 1..Len(Candidates(before)) :
                                          pass[n][c] # pass[n - 1][c]}) <= 1

=============================================================================
